---- MODULE Spec2Model ----
(***************************************************************************)
(* SocialHub backend (src/main.py): session authentication, the plan      *)
(* quota of /upload, and the resource endpoints behind the bearer guard.   *)
(*                                                                         *)
(* The document store is one sequence of documents per collection, in      *)
(* insertion order (find_one returns the first match).  Time is counted in *)
(* ticks, DayTicks of them to a UTC day.  Every handler is one action: it  *)
(* reads the request, runs the guard get_user_from_token, changes the      *)
(* store and leaves its HTTP response in resp, which Return then sends.    *)
(* Requests are handled one at a time, and the clock and the out-of-band   *)
(* collaborators step between them, so a state with resp # Idle is exactly *)
(* the state a handler has just left.                                      *)
(*                                                                         *)
(* Fields that no handler ever reads back (name, avatar_url, media_type,   *)
(* caption, error, the product's title and description, ...) are left out  *)
(* of the documents.                                                       *)
(***************************************************************************)
EXTENDS Integers, Sequences, FiniteSets, TLC

VARIABLES
    now,            \* datetime.now(timezone.utc), in ticks
    user,           \* db["user"]
    session,        \* db["session"]
    uploadlog,      \* db["uploadlog"]
    socialaccount,  \* db["socialaccount"]
    product,        \* db["product"]
    order,          \* db["order"]
    aijob,          \* db["aijob"]
    oid,            \* ObjectIds handed out so far, per collection that loses documents
    inflight,       \* the requests between their read of the store and their insert
    resp            \* the response of the request just handled, or Idle

store == <<user, session, uploadlog, socialaccount, product, order, aijob, oid>>
vars == <<now, user, session, uploadlog, socialaccount, product, order, aijob, oid, inflight, resp>>

----------------------------------------------------------------------------
(* Bounds of the model *)

MaxUsers == 2
MaxSessions == 3
MaxLogs == 3
MaxPlatforms == 3
MaxDays == 2
MaxItems == 1
MaxInflight == 2

(* Program constants *)

DayTicks == 2
SessionDays == 7
SessionTTL == SessionDays * DayTicks
Horizon == MaxDays * DayTicks - 1
LongHorizon == SessionTTL + DayTicks

Emails == {"a@x.com", "b@x.com"}
Passwords == {"pw1", "pw2"}
PlatformKeys == <<"instagram", "facebook", "youtube", "tiktok", "x", "threads", "linkedin">>
Absent == "absent"
Plans == {"free", "mid_pro", "pro", "ultra_pro"}

Idle == [op |-> "idle"]

----------------------------------------------------------------------------
(* Strings of the Authorization header: a sequence of atoms, each a run of *)
(* whitespace (space or tab) or a piece of text.                           *)

SP == [k |-> "ws", v |-> "space", n |-> 0]
TAB == [k |-> "ws", v |-> "tab", n |-> 0]
Word(s) == [k |-> "text", v |-> s, n |-> 0]
Tok(i) == [k |-> "token", v |-> "", n |-> i]

NoHeader == [present |-> FALSE, chars |-> <<>>]
Hdr(s) == [present |-> TRUE, chars |-> s]
BearerHdr(i) == Hdr(<<Word("Bearer"), SP, Tok(i)>>)

\* str.split(): the maximal runs of non-whitespace atoms
RECURSIVE splitFrom(_, _, _)
splitFrom(s, i, cur) ==
    IF i > Len(s)
    THEN IF cur = <<>> THEN <<>> ELSE <<cur>>
    ELSE IF s[i].k = "ws"
         THEN IF cur = <<>>
              THEN splitFrom(s, i + 1, <<>>)
              ELSE <<cur>> \o splitFrom(s, i + 1, <<>>)
         ELSE splitFrom(s, i + 1, Append(cur, s[i]))

split(s) == splitFrom(s, 1, <<>>)

\* str.lower() of one atom: the scheme words differ only in case
lowerAtom(a) ==
    IF a.k = "text"
    THEN IF a.v \in {"Bearer", "bearer", "BEARER"} THEN Word("bearer")
         ELSE IF a.v \in {"Basic", "basic"} THEN Word("basic")
         ELSE a
    ELSE a

lower(w) == [i \in 1..Len(w) |-> lowerAtom(w[i])]

\* secrets.token_urlsafe(32): a string no earlier call returned
TokenString(i) == <<Tok(i)>>

----------------------------------------------------------------------------
(* The store *)

\* Mutant: the query by email finds nothing
ByEmail_none(email) == {}

\* The filters of the queries: the positions of the documents matching
ByEmail(email) == {i \in DOMAIN user : user[i].email = email}
ByToken(token) == {i \in DOMAIN session : session[i].token = token}
ByUserId(id) == {i \in DOMAIN user : user[i].id = id}
ByProductId(id) == {i \in DOMAIN product : product[i].id = id}
OwnedProduct(id, user_id) == {i \in ByProductId(id) : product[i].user_id = user_id}

\* collection.find_one(filter): the first document matching (none when the
\* set of matches is empty)
Min(S) == CHOOSE x \in S : \A y \in S : x <= y
find_one(coll, matches) == coll[Min(matches)]

\* collection.delete_one(filter)
Without(coll, i) == [j \in 1..(Len(coll) - 1) |-> IF j < i THEN coll[j] ELSE coll[j + 1]]
delete_one(coll, matches) == IF matches = {} THEN coll ELSE Without(coll, Min(matches))

\* hashlib.sha256(pw.encode()).hexdigest(): one digest per password
hash_password(pw) == [sha256 |-> pw]

\* Mutant: a record without a plan counts as ultra_pro
PlanOf_defaultUltra(u) == IF u.plan = Absent THEN "ultra_pro" ELSE u.plan

\* user.get("plan", "free")
PlanOf(u) == IF u.plan = Absent THEN "free" ELSE u.plan

\* PLATFORM_LIMITS.get(plan): None for ultra_pro and for a key not in the table
NoLimit == [none |-> TRUE, v |-> 0]
Limit(n) == [none |-> FALSE, v |-> n]
\* Mutant: ultra_pro is given a number
PLATFORM_LIMITS_capped(plan) ==
    CASE plan = "free" -> Limit(4)
      [] plan = "mid_pro" -> Limit(16)
      [] plan = "pro" -> Limit(50)
      [] OTHER -> Limit(100)

PLATFORM_LIMITS(plan) ==
    CASE plan = "free" -> Limit(4)
      [] plan = "mid_pro" -> Limit(16)
      [] plan = "pro" -> Limit(50)
      [] OTHER -> NoLimit

----------------------------------------------------------------------------
(* Sessions and the bearer guard *)

\* The document create_session inserts: created_at and expires_at come from
\* two reads of the clock, t1 <= t2.
SessionDoc(token, user_id, t1, t2) ==
    [token |-> token, user_id |-> user_id, created_at |-> t1, expires_at |-> t2 + SessionTTL]

\* Mutant: a new session replaces the user's earlier ones
create_session_single(user_id, t1, t2) ==
    LET Others(sess) == sess.user_id # user_id IN
    Append(SelectSeq(session, Others), SessionDoc(TokenString(Len(session) + 1), user_id, t1, t2))

create_session(user_id, t1, t2) ==
    Append(session, SessionDoc(TokenString(Len(session) + 1), user_id, t1, t2))

Fail(status, detail) == [ok |-> FALSE, status |-> status, detail |-> detail]
Authenticated(u) == [ok |-> TRUE, user |-> u]

\* Mutant: the expiry is never looked at
Expired_never(sess, t) == FALSE

\* sess.get("expires_at") and sess["expires_at"] < datetime.now(timezone.utc)
Expired(sess, t) == sess.expires_at < t

\* Mutant: headers of more than two parts pass
BadParts_atLeastTwo(parts) == Len(parts) < 2 \/ lower(parts[1]) # <<Word("bearer")>>

\* len(parts) != 2 or parts[0].lower() != "bearer"
BadParts(parts) == Len(parts) # 2 \/ lower(parts[1]) # <<Word("bearer")>>

get_user_from_token(authorization) ==
    IF ~authorization.present \/ authorization.chars = <<>>
    THEN Fail(401, "Missing Authorization header")
    ELSE LET parts == split(authorization.chars) IN
         IF BadParts(parts)
         THEN Fail(401, "Invalid Authorization header")
         ELSE IF ByToken(parts[2]) = {}
              THEN Fail(401, "Invalid token")
              ELSE LET sess == find_one(session, ByToken(parts[2])) IN
                   IF Expired(sess, now)
                   THEN Fail(401, "Session expired")
                   ELSE IF ByUserId(sess.user_id) = {}
                        THEN Fail(401, "User not found")
                        ELSE Authenticated(find_one(user, ByUserId(sess.user_id)))

----------------------------------------------------------------------------
(* Requests and responses *)

Response(op, req, status, detail, out) ==
    [op |-> op, req |-> req, status |-> status, detail |-> detail, out |-> out]
Refused(op, req, failure) == Response(op, req, failure.status, failure.detail, <<>>)

PublicUser(u) == [id |-> u.id, email |-> u.email, plan |-> PlanOf(u)]

\* database.create_document(collection, data): inserts the document with its
\* creation time and returns the new id.  The creation time is kept on the
\* documents whose created_at a handler reads back (uploadlog).
create_document(coll, doc) == Append(coll, doc)

----------------------------------------------------------------------------
(* POST /auth/signup, POST /auth/login, GET /me *)

\* Mutant: the comparison of the digests is inverted
PasswordMismatch_inverted(u, password) == u.password_hash = hash_password(password)

\* Mutant: the digests are not compared
PasswordMismatch_never(u, password) == FALSE

\* user.get("password_hash") != hash_password(body.password)
PasswordMismatch(u, password) == u.password_hash # hash_password(password)

signup(email, password, t2) ==
    LET req == [email |-> email, password |-> password]
        user_id == oid.user + 1
    IN IF ByEmail(email) # {}
       THEN /\ resp' = Response("signup", req, 400, "Email already registered", <<>>)
            /\ UNCHANGED <<now, store, inflight>>
       ELSE /\ oid.user < MaxUsers
            /\ Len(session) < MaxSessions
            /\ user' = create_document(user,
                   [id |-> user_id, email |-> email,
                    password_hash |-> hash_password(password), plan |-> "free"])
            /\ oid' = [oid EXCEPT !.user = user_id]
            /\ session' = create_session(user_id, now, t2)
            /\ now' = t2
            /\ resp' = Response("signup", req, 200, "",
                   [token |-> TokenString(Len(session) + 1),
                    user |-> [id |-> user_id, email |-> email, plan |-> "free"]])
            /\ UNCHANGED <<inflight, uploadlog, socialaccount, product, order, aijob>>

login(email, password, t2) ==
    LET req == [email |-> email, password |-> password]
    IN IF ByEmail(email) = {}
          \/ PasswordMismatch(find_one(user, ByEmail(email)), password)
       THEN /\ resp' = Response("login", req, 401, "Invalid credentials", <<>>)
            /\ UNCHANGED <<now, store, inflight>>
       ELSE LET u == find_one(user, ByEmail(email)) IN
            /\ Len(session) < MaxSessions
            /\ session' = create_session(u.id, now, t2)
            /\ now' = t2
            /\ resp' = Response("login", req, 200, "",
                   [token |-> TokenString(Len(session) + 1), user |-> PublicUser(u)])
            /\ UNCHANGED <<inflight, user, uploadlog, socialaccount, product, order, aijob, oid>>

me(h) ==
    LET req == [hdr |-> h]
        auth == get_user_from_token(h)
    IN /\ resp' = IF ~auth.ok THEN Refused("me", req, auth)
                  ELSE Response("me", req, 200, "", PublicUser(auth.user))
       /\ UNCHANGED <<now, store, inflight>>

----------------------------------------------------------------------------
(* GET /accounts, POST /accounts *)

list_accounts(h) ==
    LET req == [hdr |-> h]
        auth == get_user_from_token(h)
    IN /\ resp' = IF ~auth.ok THEN Refused("list_accounts", req, auth)
                  ELSE LET Mine(a) == a.user_id = auth.user.id IN
                       Response("list_accounts", req, 200, "", SelectSeq(socialaccount, Mine))
       /\ UNCHANGED <<now, store, inflight>>

link_account(h, platform) ==
    LET req == [hdr |-> h, platform |-> platform]
        auth == get_user_from_token(h)
    IN IF ~auth.ok
       THEN /\ resp' = Refused("link_account", req, auth)
            /\ UNCHANGED <<now, store, inflight>>
       ELSE /\ Len(socialaccount) < MaxItems
            /\ socialaccount' = create_document(socialaccount,
                   [user_id |-> auth.user.id, platform |-> platform, status |-> "connected"])
            /\ resp' = Response("link_account", req, 200, "", [id |-> Len(socialaccount) + 1])
            /\ UNCHANGED <<inflight, now, user, session, uploadlog, product, order, aijob, oid>>

----------------------------------------------------------------------------
(* Uploads and limits *)

\* Mutant: the window starts with the first day, whatever the date
StartOfDay_epoch(t) == 0

\* start = now at 00:00:00.000000, end = start + timedelta(days=1)
StartOfDay(t) == t - (t % DayTicks)
InDay(created_at, t) ==
    /\ created_at >= StartOfDay(t)
    /\ created_at < StartOfDay(t) + DayTicks

\* Mutant: the logs of every user are counted
get_daily_count_allUsers(user_id) ==
    Cardinality({i \in DOMAIN uploadlog : InDay(uploadlog[i].created_at, now)})

\* db["uploadlog"].count_documents({user_id, created_at in [start, end)})
get_daily_count(user_id) ==
    Cardinality({i \in DOMAIN uploadlog :
                    /\ uploadlog[i].user_id = user_id
                    /\ InDay(uploadlog[i].created_at, now)})

\* Mutant: asking for the usage is logged as usage
uploads_stats_logging(h) ==
    LET req == [hdr |-> h]
        auth == get_user_from_token(h)
    IN IF ~auth.ok
       THEN /\ resp' = Refused("uploads_stats", req, auth)
            /\ UNCHANGED <<now, store, inflight>>
       ELSE /\ Len(uploadlog) < MaxLogs
            /\ uploadlog' = Append(uploadlog,
                   [user_id |-> auth.user.id, platforms |-> <<>>,
                    status |-> "queued", created_at |-> now])
            /\ resp' = Response("uploads_stats", req, 200, "",
                   [plan |-> PlanOf(auth.user), limit |-> PLATFORM_LIMITS(PlanOf(auth.user)),
                    used |-> get_daily_count(auth.user.id)])
            /\ UNCHANGED <<inflight, now, user, session, socialaccount, product, order, aijob, oid>>

uploads_stats(h) ==
    LET req == [hdr |-> h]
        auth == get_user_from_token(h)
    IN /\ resp' = IF ~auth.ok THEN Refused("uploads_stats", req, auth)
                  ELSE LET plan == PlanOf(auth.user)
                           limit == PLATFORM_LIMITS(plan)
                           used == get_daily_count(auth.user.id)
                       IN Response("uploads_stats", req, 200, "",
                              [plan |-> plan, limit |-> limit, used |-> used])
       /\ UNCHANGED <<now, store, inflight>>

upload(h, platforms) ==
    LET req == [hdr |-> h, platforms |-> platforms]
        auth == get_user_from_token(h)
    IN IF ~auth.ok
       THEN /\ resp' = Refused("upload", req, auth)
            /\ UNCHANGED <<now, store, inflight>>
       ELSE LET plan == PlanOf(auth.user)
                limit == PLATFORM_LIMITS(plan)
                used == get_daily_count(auth.user.id)
                to_add == Len(platforms)
            IN IF ~limit.none /\ used + to_add > limit.v
               THEN /\ resp' = Response("upload", req, 429, "Daily limit exceeded",
                                   [used |-> used, limit |-> limit.v])
                    /\ UNCHANGED <<now, store, inflight>>
               ELSE /\ Len(uploadlog) < MaxLogs
                    /\ uploadlog' = create_document(uploadlog,
                           [user_id |-> auth.user.id, platforms |-> platforms,
                            status |-> "queued", created_at |-> now])
                    /\ resp' = Response("upload", req, 200, "",
                                   [status |-> "queued", log_id |-> Len(uploadlog) + 1])
                    /\ UNCHANGED <<inflight, now, user, session, socialaccount, product, order, aijob, oid>>

----------------------------------------------------------------------------
(* Products and orders.  A product id that is no ObjectId string (0 here)  *)
(* makes ObjectId() raise, which the framework answers with a 500.         *)

ValidObjectId(id) == id # 0

list_products(h) ==
    LET req == [hdr |-> h]
        auth == get_user_from_token(h)
    IN /\ resp' = IF ~auth.ok THEN Refused("list_products", req, auth)
                  ELSE LET Mine(p) == p.user_id = auth.user.id IN
                       Response("list_products", req, 200, "", SelectSeq(product, Mine))
       /\ UNCHANGED <<now, store, inflight>>

create_product(h, price) ==
    LET req == [hdr |-> h, price |-> price]
        auth == get_user_from_token(h)
    IN IF ~auth.ok
       THEN /\ resp' = Refused("create_product", req, auth)
            /\ UNCHANGED <<now, store, inflight>>
       ELSE /\ oid.product < MaxItems
            /\ product' = create_document(product,
                   [id |-> oid.product + 1, price |-> price, user_id |-> auth.user.id])
            /\ oid' = [oid EXCEPT !.product = oid.product + 1]
            /\ resp' = Response("create_product", req, 200, "", [id |-> oid.product + 1])
            /\ UNCHANGED <<inflight, now, user, session, uploadlog, socialaccount, order, aijob>>

update_product(h, product_id, price) ==
    LET req == [hdr |-> h, product_id |-> product_id, price |-> price]
        auth == get_user_from_token(h)
    IN IF ~auth.ok
       THEN /\ resp' = Refused("update_product", req, auth)
            /\ UNCHANGED <<now, store, inflight>>
       ELSE IF ~ValidObjectId(product_id)
       THEN /\ resp' = Response("update_product", req, 500, "InvalidId", <<>>)
            /\ UNCHANGED <<now, store, inflight>>
       ELSE IF OwnedProduct(product_id, auth.user.id) = {}
       THEN /\ resp' = Response("update_product", req, 404, "Product not found", <<>>)
            /\ UNCHANGED <<now, store, inflight>>
       ELSE /\ product' = [product EXCEPT ![Min(ByProductId(product_id))].price = price]
            /\ resp' = Response("update_product", req, 200, "", [ok |-> TRUE])
            /\ UNCHANGED <<inflight, now, user, session, uploadlog, socialaccount, order, aijob, oid>>

delete_product(h, product_id) ==
    LET req == [hdr |-> h, product_id |-> product_id]
        auth == get_user_from_token(h)
    IN IF ~auth.ok
       THEN /\ resp' = Refused("delete_product", req, auth)
            /\ UNCHANGED <<now, store, inflight>>
       ELSE IF ~ValidObjectId(product_id)
       THEN /\ resp' = Response("delete_product", req, 500, "InvalidId", <<>>)
            /\ UNCHANGED <<now, store, inflight>>
       ELSE /\ product' = delete_one(product, OwnedProduct(product_id, auth.user.id))
            /\ resp' = Response("delete_product", req, 200, "", [ok |-> TRUE])
            /\ UNCHANGED <<inflight, now, user, session, uploadlog, socialaccount, order, aijob, oid>>

create_order(h, product_id, buyer_email) ==
    LET req == [hdr |-> h, product_id |-> product_id, buyer_email |-> buyer_email]
        auth == get_user_from_token(h)
    IN IF ~auth.ok
       THEN /\ resp' = Refused("create_order", req, auth)
            /\ UNCHANGED <<now, store, inflight>>
       ELSE IF ~ValidObjectId(product_id)
       THEN /\ resp' = Response("create_order", req, 500, "InvalidId", <<>>)
            /\ UNCHANGED <<now, store, inflight>>
       ELSE IF OwnedProduct(product_id, auth.user.id) = {}
       THEN /\ resp' = Response("create_order", req, 404, "Product not found", <<>>)
            /\ UNCHANGED <<now, store, inflight>>
       ELSE LET prod == find_one(product, OwnedProduct(product_id, auth.user.id)) IN
            /\ Len(order) < MaxItems
            /\ order' = create_document(order,
                   [user_id |-> auth.user.id, product_id |-> product_id,
                    buyer_email |-> buyer_email, amount |-> prod.price, status |-> "paid"])
            /\ resp' = Response("create_order", req, 200, "",
                           [id |-> Len(order) + 1, status |-> "paid"])
            /\ UNCHANGED <<inflight, now, user, session, uploadlog, socialaccount, product, aijob, oid>>

----------------------------------------------------------------------------
(* POST /ai/edit *)

ai_edit(h) ==
    LET req == [hdr |-> h]
        auth == get_user_from_token(h)
    IN IF ~auth.ok
       THEN /\ resp' = Refused("ai_edit", req, auth)
            /\ UNCHANGED <<now, store, inflight>>
       ELSE IF PlanOf(auth.user) # "ultra_pro"
       THEN /\ resp' = Response("ai_edit", req, 403,
                           "AI video editing is available for Ultra Pro only", <<>>)
            /\ UNCHANGED <<now, store, inflight>>
       ELSE /\ Len(aijob) < MaxItems
            /\ aijob' = create_document(aijob,
                   [user_id |-> auth.user.id, status |-> "processing"])
            /\ resp' = Response("ai_edit", req, 200, "",
                           [job_id |-> Len(aijob) + 1, status |-> "processing"])
            /\ UNCHANGED <<inflight, now, user, session, uploadlog, socialaccount, product, order, oid>>

----------------------------------------------------------------------------
(* GET /test.  The handle db is None when the store was never configured;  *)
(* a handle that is there may still fail when the collections are listed.  *)

DbHandles == {"none", "working", "failing"}
CollectionNames == <<"user", "session", "uploadlog", "socialaccount", "product", "order", "aijob">>

\* db.list_collection_names(): the names, or an exception
list_collection_names(dbh) ==
    IF dbh = "failing" THEN [raised |-> TRUE, names |-> <<>>]
    ELSE [raised |-> FALSE, names |-> CollectionNames]

\* Mutant: a failed listing is reported as a working store
DatabaseLine_optimistic(dbh, listing) ==
    IF dbh = "none" THEN "Available but not initialized" ELSE "Connected & Working"

\* response["database"] after the try blocks: the except of the inner try
\* keeps the exception of the listing from leaving the handler
DatabaseLine(dbh, listing) ==
    IF dbh = "none" THEN "Available but not initialized"
    ELSE IF listing.raised THEN "Connected but Error"
    ELSE "Connected & Working"

\* collections[:20]
ListLimit == 20
Take(seq, n) == SubSeq(seq, 1, IF Len(seq) < n THEN Len(seq) ELSE n)

\* os.getenv(name): "Set" or "Not Set"
EnvLine(set) == IF set THEN "Set" ELSE "Not Set"

test_database(dbh, url, name) ==
    LET req == [db |-> dbh, DATABASE_URL |-> url, DATABASE_NAME |-> name]
        listing == list_collection_names(dbh)
    IN /\ resp' = Response("test_database", req, 200, "",
              [backend |-> "Running",
               database |-> DatabaseLine(dbh, listing),
               database_url |-> EnvLine(url),
               database_name |-> EnvLine(name),
               connection_status |-> IF dbh = "none" THEN "Not Connected" ELSE "Connected",
               collections |-> IF dbh = "none" \/ listing.raised THEN <<>>
                               ELSE Take(listing.names, ListLimit)])
       /\ UNCHANGED <<now, store, inflight>>

----------------------------------------------------------------------------
(* Requests served side by side.  The handlers are plain functions, which   *)
(* the framework runs on worker threads: between two calls to the store of *)
(* one request, other requests run.  A request that has read the store and *)
(* decided to insert waits in inflight; its second half does the insert.   *)

\* POST /upload up to the quota check: the guard, the count of the day, the
\* comparison with the limit
upload_read(h, platforms) ==
    LET req == [hdr |-> h, platforms |-> platforms]
        auth == get_user_from_token(h)
    IN IF ~auth.ok
       THEN /\ resp' = Refused("upload", req, auth)
            /\ UNCHANGED <<now, store, inflight>>
       ELSE LET plan == PlanOf(auth.user)
                limit == PLATFORM_LIMITS(plan)
                used == get_daily_count(auth.user.id)
                to_add == Len(platforms)
            IN IF ~limit.none /\ used + to_add > limit.v
               THEN /\ resp' = Response("upload", req, 429, "Daily limit exceeded",
                                   [used |-> used, limit |-> limit.v])
                    /\ UNCHANGED <<now, store, inflight>>
               ELSE /\ Len(inflight) < MaxInflight
                    /\ Len(uploadlog) + Len(inflight) < MaxLogs
                    /\ inflight' = Append(inflight,
                           [req |-> req, user_id |-> auth.user.id, used |-> used])
                    /\ UNCHANGED <<now, store, resp>>

\* POST /upload from the insert on: the log is created whatever has been
\* logged since the count
upload_insert(k) ==
    /\ k \in DOMAIN inflight
    /\ uploadlog' = create_document(uploadlog,
           [user_id |-> inflight[k].user_id, platforms |-> inflight[k].req.platforms,
            status |-> "queued", created_at |-> now])
    /\ inflight' = Without(inflight, k)
    /\ resp' = Response("upload", inflight[k].req, 200, "",
                   [status |-> "queued", log_id |-> Len(uploadlog) + 1])
    /\ UNCHANGED <<now, user, session, socialaccount, product, order, aijob, oid>>

\* POST /auth/signup up to the existence check
signup_check(email, password) ==
    LET req == [email |-> email, password |-> password]
    IN IF ByEmail(email) # {}
       THEN /\ resp' = Response("signup", req, 400, "Email already registered", <<>>)
            /\ UNCHANGED <<now, store, inflight>>
       ELSE /\ Len(inflight) < MaxInflight
            /\ oid.user + Len(inflight) < MaxUsers
            /\ Len(session) + Len(inflight) < MaxSessions
            /\ inflight' = Append(inflight, [req |-> req])
            /\ UNCHANGED <<now, store, resp>>

\* Mutant: the insert looks for the email once more
signup_insert_recheck(k) ==
    /\ k \in DOMAIN inflight
    /\ inflight' = Without(inflight, k)
    /\ IF ByEmail(inflight[k].req.email) # {}
       THEN /\ resp' = Response("signup", inflight[k].req, 400, "Email already registered", <<>>)
            /\ UNCHANGED <<now, store>>
       ELSE /\ user' = create_document(user,
                   [id |-> oid.user + 1, email |-> inflight[k].req.email,
                    password_hash |-> hash_password(inflight[k].req.password), plan |-> "free"])
            /\ oid' = [oid EXCEPT !.user = oid.user + 1]
            /\ session' = create_session(oid.user + 1, now, now)
            /\ resp' = Response("signup", inflight[k].req, 200, "",
                   [token |-> TokenString(Len(session) + 1),
                    user |-> [id |-> oid.user + 1, email |-> inflight[k].req.email,
                              plan |-> "free"]])
            /\ UNCHANGED <<now, uploadlog, socialaccount, product, order, aijob>>

\* POST /auth/signup from the insert on: the user and the session are created
\* whatever has been inserted since the check
signup_insert(k) ==
    /\ k \in DOMAIN inflight
    /\ inflight' = Without(inflight, k)
    /\ user' = create_document(user,
           [id |-> oid.user + 1, email |-> inflight[k].req.email,
            password_hash |-> hash_password(inflight[k].req.password), plan |-> "free"])
    /\ oid' = [oid EXCEPT !.user = oid.user + 1]
    /\ session' = create_session(oid.user + 1, now, now)
    /\ resp' = Response("signup", inflight[k].req, 200, "",
           [token |-> TokenString(Len(session) + 1),
            user |-> [id |-> oid.user + 1, email |-> inflight[k].req.email, plan |-> "free"]])
    /\ UNCHANGED <<now, uploadlog, socialaccount, product, order, aijob>>

----------------------------------------------------------------------------
(* Steps that are no request *)

\* The clock advances by d ticks
Advance(d, horizon) ==
    /\ now + d <= horizon
    /\ now' = now + d
    /\ UNCHANGED <<store, inflight, resp>>

\* The billing collaborator sets a user's plan, or leaves the record without one
SetPlan(i, plan) ==
    /\ i \in DOMAIN user
    /\ user[i].plan # plan
    /\ user' = [user EXCEPT ![i].plan = plan]
    /\ UNCHANGED <<inflight, resp, now, session, uploadlog, socialaccount, product, order, aijob, oid>>

\* An account is deleted out of band; its sessions stay behind
RemoveUser(i) ==
    /\ i \in DOMAIN user
    /\ user' = Without(user, i)
    /\ UNCHANGED <<inflight, resp, now, session, uploadlog, socialaccount, product, order, aijob, oid>>

----------------------------------------------------------------------------
(* Inputs *)

\* Authorization headers of every shape
Headers ==
    {NoHeader, Hdr(<<>>), Hdr(<<SP>>), Hdr(<<Word("Bearer")>>),
     Hdr(<<Word("Bearer"), Tok(1)>>),
     Hdr(<<Word("Basic"), SP, Tok(1)>>),
     Hdr(<<Word("Bearer"), SP, Tok(1), SP, Tok(1)>>),
     Hdr(<<Word("bearer"), SP, Tok(1)>>),
     Hdr(<<Word("BEARER"), TAB, Tok(1)>>),
     Hdr(<<SP, Word("Bearer"), SP, SP, Tok(1), SP>>)}
    \cup {BearerHdr(i) : i \in 0..Len(session)}

\* One credential of each kind: none, a malformed one, a token never issued (0)
\* and every token issued
Credentials ==
    {NoHeader, Hdr(<<Word("Basic"), SP, Tok(1)>>)} \cup {BearerHdr(i) : i \in 0..Len(session)}

\* The tokens issued
Bearers == {BearerHdr(i) : i \in 1..Len(session)}

PlatformLists == {SubSeq(PlatformKeys, 1, n) : n \in 0..MaxPlatforms}
Prices == {5, 9}
ProductIds == 0..MaxItems

\* The second clock read of a request: the clock may have advanced
ClockReads(horizon) == {t \in {now, now + 1} : t <= horizon}

----------------------------------------------------------------------------
(* Specifications *)

Init ==
    /\ now = 0
    /\ user = <<>>
    /\ session = <<>>
    /\ uploadlog = <<>>
    /\ socialaccount = <<>>
    /\ product = <<>>
    /\ order = <<>>
    /\ aijob = <<>>
    /\ oid = [user |-> 0, product |-> 0]
    /\ inflight = <<>>
    /\ resp = Idle

\* Requests are handled one at a time: the next one starts once the response
\* of the last one has been sent
Ready == resp = Idle

Return ==
    /\ resp # Idle
    /\ resp' = Idle
    /\ UNCHANGED <<now, store, inflight>>

\* The quota: one account, opened on the first tick, uploads over MaxDays days
Next ==
    \/ Ready /\ now = 0 /\ signup("a@x.com", "pw1", now)
    \/ Ready /\ now = 0 /\ \E p \in Passwords : login("a@x.com", p, now)
    \/ Ready /\ \E h \in Credentials : uploads_stats(h)
    \/ Ready /\ \E h \in Credentials, ps \in PlatformLists : upload(h, ps)
    \/ Ready /\ Advance(1, Horizon)
    \/ Return

Spec == Init /\ [][Next]_vars

\* Credentials: signups, logins and GET /me with headers of every shape
NextAuth ==
    \/ Ready /\ \E e \in Emails, p \in Passwords : signup(e, p, now)
    \/ Ready /\ \E e \in Emails, p \in Passwords : login(e, p, now)
    \/ Ready /\ \E h \in Headers : me(h)
    \/ Return

SpecAuth == Init /\ [][NextAuth]_vars

\* Session lifetime: the clock runs past the expiry of the sessions
NextSession ==
    \/ Ready /\ \E e \in Emails, t2 \in ClockReads(LongHorizon) : signup(e, "pw1", t2)
    \/ Ready /\ \E e \in Emails, t2 \in ClockReads(LongHorizon) : login(e, "pw1", t2)
    \/ Ready /\ \E h \in Bearers : me(h)
    \/ Ready /\ Advance(1, LongHorizon)
    \/ Return

SpecSession == Init /\ [][NextSession]_vars

\* Plans: the billing collaborator moves one account between the plans
NextPlans ==
    \/ Ready /\ now = 0 /\ signup("a@x.com", "pw1", now)
    \/ Ready /\ \E plan \in Plans \cup {Absent} : SetPlan(1, plan)
    \/ Ready /\ \E h \in Bearers : uploads_stats(h)
    \/ Ready /\ \E h \in Bearers, ps \in PlatformLists : upload(h, ps)
    \/ Ready /\ \E h \in Bearers : ai_edit(h)
    \/ Ready /\ Advance(DayTicks, Horizon)
    \/ Return

SpecPlans == Init /\ [][NextPlans]_vars

\* The guard: every protected operation with every kind of credential, while
\* sessions expire and accounts disappear
NextGuard ==
    \/ Ready /\ now = 0 /\ \E e \in Emails : signup(e, "pw1", now)
    \/ Ready /\ \E h \in Credentials : me(h)
    \/ Ready /\ \E h \in Credentials : list_accounts(h)
    \/ Ready /\ \E h \in Credentials : link_account(h, "instagram")
    \/ Ready /\ \E h \in Credentials : uploads_stats(h)
    \/ Ready /\ \E h \in Credentials : upload(h, <<"instagram">>)
    \/ Ready /\ \E h \in Credentials : list_products(h)
    \/ Ready /\ \E h \in Credentials : create_product(h, 5)
    \/ Ready /\ \E h \in Credentials, id \in ProductIds : update_product(h, id, 9)
    \/ Ready /\ \E h \in Credentials, id \in ProductIds : delete_product(h, id)
    \/ Ready /\ \E h \in Credentials, id \in ProductIds : create_order(h, id, "buyer@x.com")
    \/ Ready /\ \E h \in Credentials : ai_edit(h)
    \/ Ready /\ \E i \in DOMAIN user : RemoveUser(i)
    \/ Ready /\ Advance(SessionTTL + 1, LongHorizon)
    \/ Return

SpecGuard == Init /\ [][NextGuard]_vars

\* Two accounts side by side: each uploads and asks for its usage while the
\* other does the same, the days pass and billing moves the first account
\* between the plans
TenantPlatformLists == {SubSeq(PlatformKeys, 1, n) : n \in {1, MaxPlatforms}}
TenantPlans == {"free", "pro"}

NextTenants ==
    \/ Ready /\ now = 0 /\ \E e \in Emails : signup(e, "pw1", now)
    \/ Ready /\ \E h \in Bearers : uploads_stats(h)
    \/ Ready /\ \E h \in Bearers, ps \in TenantPlatformLists : upload(h, ps)
    \/ Ready /\ \E h \in Bearers : create_product(h, 5)
    \/ Ready /\ \E plan \in TenantPlans : SetPlan(1, plan)
    \/ Ready /\ Advance(1, Horizon)
    \/ Return

SpecTenants == Init /\ [][NextTenants]_vars

\* Accounts: signups and logins, one request at a time, with emails that
\* differ in case only, and the diagnostics of the store in between
CaseEmails == {"a@x.com", "A@x.com"}

NextAccounts ==
    \/ Ready /\ \E e \in CaseEmails, p \in Passwords : signup(e, p, now)
    \/ Ready /\ \E e \in CaseEmails, p \in Passwords : login(e, p, now)
    \/ Ready /\ \E h \in Bearers : me(h)
    \/ Ready /\ \E dbh \in DbHandles, url \in BOOLEAN, name \in BOOLEAN :
                    test_database(dbh, url, name)
    \/ Return

SpecAccounts == Init /\ [][NextAccounts]_vars

\* Uploads of one account side by side: up to MaxInflight of them are between
\* their count and their insert
NextUploadRace ==
    \/ Ready /\ now = 0 /\ signup("a@x.com", "pw1", now)
    \/ Ready /\ \E h \in Bearers, ps \in PlatformLists : upload_read(h, ps)
    \/ Ready /\ \E k \in DOMAIN inflight : upload_insert(k)
    \/ Ready /\ \E h \in Bearers : uploads_stats(h)
    \/ Ready /\ Advance(1, Horizon)
    \/ Return

SpecUploadRace == Init /\ [][NextUploadRace]_vars

\* Signups side by side: up to MaxInflight of them are between their check and
\* their insert
NextSignupRace ==
    \/ Ready /\ \E e \in Emails, p \in Passwords : signup_check(e, p)
    \/ Ready /\ \E k \in DOMAIN inflight : signup_insert(k)
    \/ Ready /\ \E e \in Emails, p \in Passwords : login(e, p, now)
    \/ Ready /\ \E h \in Bearers : me(h)
    \/ Return

SpecSignupRace == Init /\ [][NextSignupRace]_vars

----------------------------------------------------------------------------
(* What the properties speak of *)

Last(seq) == seq[Len(seq)]
Range(seq) == {seq[i] : i \in DOMAIN seq}

\* The user a bearer header names: the owner of the session with its token
SessionsOf(h) == {i \in DOMAIN session : h = Hdr(<<Word("Bearer"), SP>> \o session[i].token)}
OwnersOf(h) == {j \in DOMAIN user : \E i \in SessionsOf(h) : user[j].id = session[i].user_id}
Caller(h) == user[CHOOSE j \in OwnersOf(h) : TRUE]

\* The platform entries of a user's logs created in the UTC day of tick t
SameDay(t1, t2) == t1 \div DayTicks = t2 \div DayTicks
LogsOn(id, t) ==
    {i \in DOMAIN uploadlog : uploadlog[i].user_id = id /\ SameDay(uploadlog[i].created_at, t)}
RECURSIVE Entries(_)
Entries(S) ==
    IF S = {} THEN 0
    ELSE LET i == CHOOSE x \in S : TRUE IN Len(uploadlog[i].platforms) + Entries(S \ {i})
PlatformUnits(id, t) == Entries(LogsOn(id, t))

\* The daily limits of the bounded plans
Bounded == {"free", "mid_pro", "pro"}
DailyLimit(plan) == CASE plan = "free" -> 4 [] plan = "mid_pro" -> 16 [] plan = "pro" -> 50

QueuedLog(id, platforms, t) ==
    [user_id |-> id, platforms |-> platforms, status |-> "queued", created_at |-> t]

----------------------------------------------------------------------------
(* C1: an upload of n platforms by a user on a bounded plan, with `used`   *)
(* platform entries logged today, is rejected with QuotaExceeded{used,     *)
(* limit} exactly when used + n > limit, and is otherwise persisted as one *)
(* queued log; a rejection leaves the logs as they were.                   *)
C1_QuotaDecision ==
    [][(Ready /\ resp'.op = "upload" /\ resp'.status # 401
            /\ Caller(resp'.req.hdr).plan \in Bounded) =>
        LET u == Caller(resp'.req.hdr)
            n == Len(resp'.req.platforms)
            used == PlatformUnits(u.id, now)
            limit == DailyLimit(u.plan)
        IN IF used + n > limit
           THEN /\ resp'.status = 429
                /\ resp'.out = [used |-> used, limit |-> limit]
                /\ uploadlog' = uploadlog
           ELSE /\ resp'.status = 200
                /\ uploadlog' = Append(uploadlog, QueuedLog(u.id, resp'.req.platforms, now))]_vars

(* C2: the `used` of uploads/stats and of the quota check is the number of *)
(* platform entries of the user's logs of the current UTC day, not the     *)
(* number of logs.                                                         *)
C2_UsedIsPlatformEntries ==
    /\ (resp.op = "uploads_stats" /\ resp.status = 200) =>
           resp.out.used = PlatformUnits(Caller(resp.req.hdr).id, now)
    /\ (resp.op = "upload" /\ resp.status = 429) =>
           resp.out.used = PlatformUnits(Caller(resp.req.hdr).id, now)

(* C3: with requests handled one at a time, the platform entries a user on *)
(* a bounded plan logs within one UTC day never exceed the plan's limit.   *)
C3_DailyCeiling ==
    \A j \in DOMAIN user : \A t \in 0..Horizon :
        user[j].plan \in Bounded => PlatformUnits(user[j].id, t) <= DailyLimit(user[j].plan)

(* C4: a token resolves to its user at every time up to and including   *)
(* created_at + 7 days and fails with SessionExpired at every time after;  *)
(* an expired session stays expired whatever happens next.                 *)
C4_SessionLifetime ==
    /\ [](resp.op = "me" =>
            \A i \in SessionsOf(resp.req.hdr) :
                IF now <= session[i].created_at + SessionTTL
                THEN resp.status = 200 /\ resp.out.id = session[i].user_id
                ELSE resp.status = 401 /\ resp.detail = "Session expired")
    /\ [][\A i \in DOMAIN session :
            now > session[i].created_at + SessionTTL =>
                /\ i \in DOMAIN session'
                /\ session'[i] = session[i]
                /\ now' >= now]_vars

(* C5: a signup with an email no user has succeeds, and a login with the   *)
(* email and password of a user succeeds, returns a token no older session *)
(* has, which resolves to that user, and reports plan "free".              *)
TokenHdr(token) == Hdr(<<Word("Bearer"), SP>> \o token)
C5_SignupThenLogin ==
    /\ resp.op = "signup" =>
        LET M == {j \in DOMAIN user : user[j].email = resp.req.email} IN
        IF resp.status = 200
        THEN /\ Cardinality(M) = 1
             /\ \A j \in M :
                   /\ user[j].plan = "free"
                   /\ resp.out.user = [id |-> user[j].id, email |-> resp.req.email, plan |-> "free"]
                   /\ get_user_from_token(TokenHdr(resp.out.token)) = Authenticated(user[j])
        ELSE resp.status = 400 /\ M # {}
    /\ resp.op = "login" =>
        \A j \in DOMAIN user :
            (/\ user[j].email = resp.req.email
             /\ user[j].password_hash = hash_password(resp.req.password)) =>
                /\ resp.status = 200
                /\ resp.out.user = [id |-> user[j].id, email |-> resp.req.email, plan |-> "free"]
                /\ SessionsOf(TokenHdr(resp.out.token)) = {Len(session)}
                /\ get_user_from_token(TokenHdr(resp.out.token)) = Authenticated(user[j])
C5_Witness ==
    /\ resp.op = "login" /\ resp.status = 200
    /\ Len(user) = 2 /\ Len(session) = 3
    /\ resp.out.user.id = 2

(* C6: a login with an unknown email or with a wrong password fails with   *)
(* the same 401 and message, creates no session and changes nothing.       *)
KnownEmail(e) == \E j \in DOMAIN user : user[j].email = e
RightPassword(e, p) ==
    \E j \in DOMAIN user : user[j].email = e /\ user[j].password_hash = hash_password(p)
C6_LoginFailure ==
    [][(Ready /\ resp'.op = "login"
            /\ ~RightPassword(resp'.req.email, resp'.req.password)) =>
        /\ resp'.status = 401
        /\ resp'.detail = "Invalid credentials"
        /\ resp'.out = <<>>
        /\ store' = store
        /\ now' = now]_vars
C6_Witness ==
    /\ resp.op = "login" /\ resp.status = 401
    /\ KnownEmail(resp.req.email)
    /\ session # <<>>

(* C7: a protected operation either runs as the user its token resolves  *)
(* to, or fails as unauthenticated and leaves every collection unchanged:  *)
(* so it does when the credential is missing, malformed, unknown, expired, *)
(* or its user is gone.                                                    *)
ProtectedOps ==
    {"me", "list_accounts", "link_account", "uploads_stats", "upload", "list_products",
     "create_product", "update_product", "delete_product", "create_order", "ai_edit"}
\* The sessions of the header's token that have not expired and whose user exists
LiveSessionsOf(h) ==
    {i \in SessionsOf(h) :
        /\ session[i].expires_at >= now
        /\ \E j \in DOMAIN user : user[j].id = session[i].user_id}
\* Every document added to or taken from a collection belongs to user id
OnlyTouches(id, before, after) ==
    \A d \in (Range(after) \ Range(before)) \cup (Range(before) \ Range(after)) : d.user_id = id
C7_Guard ==
    [][(Ready /\ resp'.op \in ProtectedOps) =>
        LET h == resp'.req.hdr IN
        IF LiveSessionsOf(h) = {}
        THEN resp'.status = 401 /\ store' = store
        ELSE LET id == Caller(h).id IN
             /\ resp'.status # 401
             /\ user' = user /\ session' = session
             /\ OnlyTouches(id, uploadlog, uploadlog')
             /\ OnlyTouches(id, socialaccount, socialaccount')
             /\ OnlyTouches(id, product, product')
             /\ OnlyTouches(id, order, order')
             /\ OnlyTouches(id, aijob, aijob')
             /\ resp'.op = "me" => resp'.out.id = id]_vars
C7_Witness ==
    /\ resp.op = "upload" /\ resp.status = 401 /\ resp.detail = "Session expired"
    /\ uploadlog # <<>> /\ product # <<>> /\ order # <<>>
C7_WitnessGone ==
    /\ resp.op = "create_order" /\ resp.status = 401 /\ resp.detail = "User not found"
    /\ product # <<>>

(* C8, as amended: a missing or empty Authorization header is answered     *)
(* "Missing Authorization header"; a non-empty one that is not exactly two *)
(* whitespace-separated tokens, the first "bearer" in any case, is         *)
(* answered "Invalid Authorization header"; both are 401s, no other header *)
(* gets either message, and the store is left unchanged.                   *)
BearerWords == {Word("Bearer"), Word("bearer"), Word("BEARER")}
\* Where the tokens of s start, seps being the separators
Starts(s, seps) == {i \in DOMAIN s : s[i] \notin seps /\ (i = 1 \/ s[i - 1] \in seps)}
\* s is exactly two tokens, the first of them one of the bearer words
TwoTokensBearer(s, seps) ==
    /\ Cardinality(Starts(s, seps)) = 2
    /\ LET a == Min(Starts(s, seps)) IN s[a] \in BearerWords /\ s[a + 1] \in seps
\* A step of GET /me answers by the rule: emptyIsMissing says whether an empty
\* header counts as missing, seps what separates the tokens
HeaderRule(emptyIsMissing, seps) ==
    (Ready /\ resp'.op = "me") =>
        LET h == resp'.req.hdr
            missing == resp'.status = 401 /\ resp'.detail = "Missing Authorization header"
            invalid == resp'.status = 401 /\ resp'.detail = "Invalid Authorization header"
        IN IF ~h.present \/ (emptyIsMissing /\ h.chars = <<>>) THEN missing /\ store' = store
           ELSE IF ~TwoTokensBearer(h.chars, seps) THEN invalid /\ store' = store
           ELSE ~missing /\ ~invalid
C8_HeaderParsingAmended == [][HeaderRule(TRUE, {SP, TAB})]_vars
C8_Witness ==
    /\ resp.op = "me" /\ resp.detail = "Invalid Authorization header"
    /\ resp.req.hdr = Hdr(<<Word("Bearer"), SP, Tok(1), SP, Tok(1)>>)
    /\ session # <<>>

(* C8, as claimed: a missing header is answered as unauthenticated, and    *)
(* every header that is present but is not exactly two space-separated     *)
(* tokens, the first "bearer" in any case, as a malformed credential.      *)
C8_HeaderParsing == [][HeaderRule(FALSE, {SP})]_vars

(* C9: every upload of a user on plan ultra_pro is accepted and persisted  *)
(* as a queued log, however many logs the user has today, and uploads/stats*)
(* reports no limit for that user.                                         *)
C9_UltraProUnlimited ==
    /\ (resp.op = "upload" /\ Caller(resp.req.hdr).plan = "ultra_pro") =>
          /\ resp.status = 200
          /\ uploadlog # <<>>
          /\ Last(uploadlog) = QueuedLog(Caller(resp.req.hdr).id, resp.req.platforms, now)
          /\ resp.out = [status |-> "queued", log_id |-> Len(uploadlog)]
    /\ (resp.op = "uploads_stats" /\ Caller(resp.req.hdr).plan = "ultra_pro") =>
          /\ resp.status = 200
          /\ resp.out.limit = NoLimit
\* accepted where the free plan refuses: 2 logs today and 3 more platforms
C9_Witness ==
    /\ resp.op = "upload" /\ resp.status = 200
    /\ Caller(resp.req.hdr).plan = "ultra_pro"
    /\ Len(resp.req.platforms) = 3
    /\ Cardinality(LogsOn(Caller(resp.req.hdr).id, now)) = 3
    /\ PlatformUnits(Caller(resp.req.hdr).id, now) > 4

(* C10: ai/edit is Forbidden and creates no job for a user whose plan is   *)
(* free, mid_pro, pro or missing; for ultra_pro it creates exactly one job *)
(* and answers "processing".                                               *)
C10_AiEditGate ==
    [][(Ready /\ resp'.op = "ai_edit" /\ resp'.status # 401) =>
        LET u == Caller(resp'.req.hdr) IN
        IF u.plan = "ultra_pro"
        THEN /\ resp'.status = 200
             /\ resp'.out.status = "processing"
             /\ aijob' = Append(aijob, [user_id |-> u.id, status |-> "processing"])
             /\ resp'.out.job_id = Len(aijob')
        ELSE /\ u.plan \in {"free", "mid_pro", "pro", Absent}
             /\ resp'.status = 403
             /\ store' = store]_vars
C10_Witness ==
    /\ resp.op = "ai_edit" /\ resp.status = 403
    /\ Caller(resp.req.hdr).plan = Absent
C10_WitnessUltra ==
    /\ resp.op = "ai_edit" /\ resp.status = 200
    /\ Len(aijob) = 1

(* C11, as amended: uploads/stats changes nothing, and what it returns for *)
(* a user, `used` and `limit`, is left as it is by every step that is      *)
(* neither an upload of that user, nor a change of the UTC date, nor a     *)
(* change of that user's plan; so repeated calls within one UTC day, with  *)
(* no upload of the user and no plan change in between, return the same.   *)
\* What uploads/stats returns for the user record at position j
StatsNow(j) ==
    [used |-> get_daily_count(user[j].id), limit |-> PLATFORM_LIMITS(PlanOf(user[j]))]
\* The step persists a log of user id
UploadBy(id) == uploadlog' # uploadlog /\ Last(uploadlog').user_id = id
\* uploads/stats reads only: the store and the clock stay, the answer is StatsNow
StatsReadsOnly ==
    (Ready /\ resp'.op = "uploads_stats") =>
        /\ store' = store /\ now' = now
        /\ resp'.status = 200 =>
              \A j \in OwnersOf(resp'.req.hdr) :
                  [used |-> resp'.out.used, limit |-> resp'.out.limit] = StatsNow(j)
\* Between two calls: sameDay says whether the rule is limited to steps within
\* one UTC day, samePlan whether to steps that leave the plan
StatsStable(sameDay, samePlan) ==
    \A j \in DOMAIN user :
        (/\ j \in DOMAIN user' /\ user'[j].id = user[j].id
         /\ ~UploadBy(user[j].id)
         /\ sameDay => SameDay(now, now')
         /\ samePlan => user'[j].plan = user[j].plan) =>
            StatsNow(j)' = StatsNow(j)
C11_StatsIdempotentAmended == [][StatsReadsOnly /\ StatsStable(TRUE, TRUE)]_vars
C11_Witness ==
    /\ resp.op = "uploads_stats" /\ resp.status = 200
    /\ resp.out.used = 2
    /\ \E i \in DOMAIN uploadlog : uploadlog[i].user_id # Caller(resp.req.hdr).id
    /\ product # <<>>
    /\ now % DayTicks = DayTicks - 1

(* C11, as claimed: what uploads/stats returns for a user is left as it is *)
(* by every step that is not an upload of that user (and leaves the user's *)
(* plan), whatever else happens and however much time passes.              *)
C11_StatsIdempotent == [][StatsReadsOnly /\ StatsStable(FALSE, TRUE)]_vars

(* C12: uploads of one user on a bounded plan that run side by side can    *)
(* both be accepted on a count taken before either is logged, and even so  *)
(* the platform entries logged in one UTC day exceed the plan's limit by   *)
(* at most the platforms of one request.                                   *)
\* The longest platform list among the logs in S
RECURSIVE Longest(_)
Longest(S) ==
    IF S = {} THEN 0
    ELSE LET i == CHOOSE x \in S : TRUE
             rest == Longest(S \ {i})
         IN IF Len(uploadlog[i].platforms) > rest THEN Len(uploadlog[i].platforms) ELSE rest
C12_RaceOvershoot ==
    \A j \in DOMAIN user : \A t \in 0..Horizon :
        user[j].plan \in Bounded =>
            PlatformUnits(user[j].id, t) <= DailyLimit(user[j].plan) + Longest(LogsOn(user[j].id, t))
\* Two uploads were accepted on the same count and both are logged
C12_RaceReached ==
    /\ resp.op = "upload" /\ resp.status = 200
    /\ Len(uploadlog) = 2 /\ inflight = <<>>
    /\ PlatformUnits(1, now) > DailyLimit("free")

(* C13: signups that run side by side with one email, both past the        *)
(* existence check, both insert: the insert never looks for the email      *)
(* again, so two user records with one email are reachable; every signup   *)
(* answered gets a token that resolves to the record it created, and the   *)
(* records have different ids.                                             *)
C13_SignupRace ==
    /\ [](/\ \A i, j \in DOMAIN user : i # j => user[i].id # user[j].id
          /\ (resp.op = "signup" /\ resp.status = 200) =>
                /\ Last(user).email = resp.req.email
                /\ resp.out.user.id = Last(user).id
                /\ get_user_from_token(TokenHdr(resp.out.token)) = Authenticated(Last(user)))
    /\ [][(Ready /\ Len(inflight') < Len(inflight)) =>
            /\ resp'.op = "signup" /\ resp'.status = 200
            /\ Len(user') = Len(user) + 1
            /\ Len(session') = Len(session) + 1]_vars
C13_Witness ==
    /\ resp.op = "signup" /\ resp.status = 200
    /\ Len(user) = 2 /\ user[1].email = user[2].email
    /\ get_user_from_token(TokenHdr(session[1].token)) = Authenticated(user[1])
    /\ get_user_from_token(TokenHdr(resp.out.token)) = Authenticated(user[2])

(* C14: with signups handled one at a time no two user records have the    *)
(* same email, emails compared as they are written; a signup with an email *)
(* that a record has fails with the conflict answer and creates neither a  *)
(* user nor a session, and any other signup succeeds.                      *)
C14_EmailUnique ==
    /\ [](\A i, j \in DOMAIN user : i # j => user[i].email # user[j].email)
    /\ [][(Ready /\ resp'.op = "signup") =>
            IF KnownEmail(resp'.req.email)
            THEN /\ resp'.status = 400 /\ resp'.detail = "Email already registered"
                 /\ store' = store
            ELSE /\ resp'.status = 200
                 /\ Len(user') = Len(user) + 1 /\ Last(user').email = resp'.req.email]_vars
C14_Witness ==
    /\ resp.op = "signup" /\ resp.status = 400 /\ resp.req.email = "A@x.com"
    /\ Len(user) = 2 /\ user[1].email = "a@x.com" /\ user[2].email = "A@x.com"
    /\ Len(session) = 3

(* C16: the diagnostics never fail: with no store handle, with a working   *)
(* one and with one that fails on the listing of the collections alike,    *)
(* the answer is a normal response that names the state of the store, and  *)
(* the store is left unchanged.                                            *)
C16_DiagnosticsNeverRaise ==
    [][(Ready /\ resp'.op = "test_database") =>
        /\ resp'.status = 200
        /\ store' = store /\ now' = now
        /\ resp'.out.backend = "Running"
        /\ resp'.req.db = "none" =>
              /\ resp'.out.database = "Available but not initialized"
              /\ resp'.out.connection_status = "Not Connected"
              /\ resp'.out.collections = <<>>
        /\ resp'.req.db = "failing" =>
              /\ resp'.out.database = "Connected but Error"
              /\ resp'.out.collections = <<>>
        /\ resp'.req.db = "working" =>
              /\ resp'.out.database = "Connected & Working"
              /\ resp'.out.collections = CollectionNames]_vars
C16_Witness ==
    /\ resp.op = "test_database" /\ resp.status = 200
    /\ resp.req.db = "failing" /\ resp.out.database = "Connected but Error"
    /\ user # <<>> /\ session # <<>>

(* C15: every log that upload persists names at least one platform: an     *)
(* upload request with no platforms is never accepted and adds no log.     *)
C15_NonEmptyPlatforms ==
    /\ \A i \in DOMAIN uploadlog : uploadlog[i].platforms # <<>>
    /\ (resp.op = "upload" /\ resp.status # 401 /\ resp.req.platforms = <<>>) => resp.status # 200

(* C17: sessions accumulate.  Every step keeps the sessions there are, as  *)
(* they are; a successful signup or login adds exactly one, for the user   *)
(* of the response and with a token no session had, and nothing else adds  *)
(* any; every session that has not expired resolves to its user, whatever  *)
(* sessions the user got later.                                            *)
Tokens == {session[i].token : i \in DOMAIN session}
C17_SessionsAccumulate ==
    /\ [][/\ \A i \in DOMAIN session : i \in DOMAIN session' /\ session'[i] = session[i]
          /\ IF Ready /\ resp'.op \in {"signup", "login"} /\ resp'.status = 200
             THEN /\ Len(session') = Len(session) + 1
                  /\ Last(session').user_id = resp'.out.user.id
                  /\ Last(session').token = resp'.out.token
                  /\ Last(session').token \notin Tokens
             ELSE session' = session]_vars
    /\ [](\A i \in DOMAIN session :
            session[i].expires_at >= now =>
                \E j \in DOMAIN user :
                    /\ user[j].id = session[i].user_id
                    /\ get_user_from_token(TokenHdr(session[i].token)) = Authenticated(user[j]))
C17_Witness ==
    /\ resp.op = "me" /\ resp.status = 200 /\ resp.req.hdr = BearerHdr(1)
    /\ Len(session) = 3
    /\ session[2].user_id = session[1].user_id /\ session[2].expires_at >= now
    /\ session[3].user_id # session[1].user_id
    /\ now > 0

(* C18: usage is counted within the current UTC day.  With no log of the   *)
(* user created today `used` is 0, whatever was logged on earlier days,    *)
(* and an upload within the limit is then accepted even if the user used   *)
(* the limit up the day before; a log created at the very start of today   *)
(* counts today.                                                           *)
AtStartOfDay(created_at) == created_at % DayTicks = 0
C18_DailyWindow ==
    /\ [](resp.op = "uploads_stats" /\ resp.status = 200 =>
            LET id == Caller(resp.req.hdr).id IN
            /\ LogsOn(id, now) = {} => resp.out.used = 0
            /\ (\E i \in LogsOn(id, now) :
                    AtStartOfDay(uploadlog[i].created_at) /\ uploadlog[i].platforms # <<>>)
                  => resp.out.used >= 1)
    /\ [][(/\ Ready /\ resp'.op = "upload" /\ resp'.status # 401
           /\ LogsOn(Caller(resp'.req.hdr).id, now) = {}
           /\ Caller(resp'.req.hdr).plan \in Bounded
           /\ Len(resp'.req.platforms) <= DailyLimit(Caller(resp'.req.hdr).plan)) =>
            /\ resp'.status = 200
            /\ uploadlog' = Append(uploadlog,
                   QueuedLog(Caller(resp'.req.hdr).id, resp'.req.platforms, now))]_vars
C18_Witness ==
    /\ resp.op = "upload" /\ resp.status = 200
    /\ now >= DayTicks
    /\ Len(resp.req.platforms) = MaxPlatforms
    /\ PlatformUnits(Caller(resp.req.hdr).id, 0) >= DailyLimit("free")
    /\ Cardinality(LogsOn(Caller(resp.req.hdr).id, now)) = 1
C18_WitnessStartOfDay ==
    /\ resp.op = "uploads_stats" /\ resp.status = 200 /\ resp.out.used = 1
    /\ now = 2 * DayTicks - 1
    /\ Len(uploadlog) = 2
    /\ uploadlog[1].created_at = DayTicks - 1 /\ uploadlog[2].created_at = DayTicks

(* C20: the quota of a user is the user's own.  A step that logs an upload *)
(* of one user leaves the `used` of every other user as it was and leaves  *)
(* every upload of every other user accepted or rejected as it was; the    *)
(* `used` reported to a user is never more than the user's own logs of the *)
(* current UTC day account for.                                            *)
\* Whether an upload of platforms by the user record at position j is rejected
Rejected(j, platforms) ==
    LET limit == PLATFORM_LIMITS(PlanOf(user[j]))
    IN ~limit.none /\ get_daily_count(user[j].id) + Len(platforms) > limit.v
\* The most that the user's own logs of today can count for, in either unit
OwnMost(id) ==
    IF PlatformUnits(id, now) > Cardinality(LogsOn(id, now))
    THEN PlatformUnits(id, now) ELSE Cardinality(LogsOn(id, now))
C20_QuotaIsolation ==
    /\ [][\A j \in DOMAIN user :
            (uploadlog' # uploadlog /\ ~UploadBy(user[j].id)) =>
                /\ get_daily_count(user[j].id)' = get_daily_count(user[j].id)
                /\ \A ps \in PlatformLists : Rejected(j, ps)' = Rejected(j, ps)]_vars
    /\ [](/\ (resp.op = "uploads_stats" /\ resp.status = 200) =>
                resp.out.used <= OwnMost(Caller(resp.req.hdr).id)
          /\ (resp.op = "upload" /\ resp.status = 429) =>
                resp.out.used <= OwnMost(Caller(resp.req.hdr).id))
C20_Witness ==
    /\ resp.op = "upload" /\ resp.status = 200
    /\ Len(resp.req.platforms) = MaxPlatforms
    /\ Len(uploadlog) = 3
    /\ uploadlog[1].user_id # Caller(resp.req.hdr).id
    /\ uploadlog[2].user_id # Caller(resp.req.hdr).id
    /\ SameDay(uploadlog[1].created_at, now) /\ SameDay(uploadlog[2].created_at, now)
    /\ user[1].plan = "free" /\ user[2].plan = "free"

(* C19: products are their owner's.  A request of one user leaves every    *)
(* product of every other user in the store as it is; update_product and   *)
(* create_order naming a product that is not there or is not the caller's  *)
(* fail as not found and leave the store unchanged, and delete_product on  *)
(* such a product removes nothing.                                         *)
ProductOps == {"update_product", "delete_product", "create_order"}
\* The rule for the requests that name one of ids
ProductRule(ids) ==
    (Ready /\ resp'.op \in ProductOps /\ resp'.status # 401 /\ resp'.req.product_id \in ids) =>
        LET u == Caller(resp'.req.hdr)
            mine == \E i \in DOMAIN product :
                        product[i].id = resp'.req.product_id /\ product[i].user_id = u.id
        IN /\ \A i \in DOMAIN product :
                 product[i].user_id # u.id => product[i] \in Range(product')
           /\ ~mine =>
                 IF resp'.op = "delete_product"
                 THEN product' = product
                 ELSE /\ resp'.status = 404 /\ resp'.detail = "Product not found"
                      /\ store' = store
C19_ProductIsolation == [][ProductRule(ProductIds)]_vars

====
